---------------------------- MODULE Spec2Model ----------------------------
(***************************************************************************)
(* Model of the three Three.js visualizations of the repository:           *)
(*   - shared/visualizations/tetrahedron_visualization.js                  *)
(*   - mathematics/visualizations/rectangular_prism_visualization.js       *)
(*   - diamond_visualization.js                                            *)
(* Each script is an independent page: window.onload = init builds the     *)
(* geometry once, then animate frames and resize events follow.            *)
(*                                                                         *)
(* JavaScript Numbers are modelled as fixed-point integers counting        *)
(* 1/Unit (1e-7); products and square roots that exceed 32 bits are        *)
(* computed in two limbs <<high, low>> with value high * Limb^2 + low.     *)
(***************************************************************************)
EXTENDS Integers, Sequences, FiniteSets, TLC

\* ------------------------------------------------------------------------
\* Bounds of the model
\* ------------------------------------------------------------------------
\* scales explored: k/2 and k*4e-7 for k in 1..MaxScale
MaxScale == 4
\* frames rendered by animate before the model stops counting
MaxFrames == 2

\* ------------------------------------------------------------------------
\* Fixed-point arithmetic standing for JavaScript Number arithmetic
\* ------------------------------------------------------------------------
Unit == 10^7
Limb == 10^4
MaxOperand == 4 * 10^8

Abs(a) == IF a < 0 THEN -a ELSE a
Sgn(a) == IF a < 0 THEN -1 ELSE 1

\* a * b for 0 <= a, b <= MaxOperand, as <<high, low>>, low < Limb^2
WideMul(a, b) ==
    LET a1 == a \div Limb
        a0 == a % Limb
        b1 == b \div Limb
        b0 == b % Limb
        cross == a1 * b0 + a0 * b1
        lo == (cross % Limb) * Limb + a0 * b0
    IN  <<a1 * b1 + cross \div Limb + lo \div (Limb * Limb), lo % (Limb * Limb)>>

WideAdd(w, v) ==
    <<w[1] + v[1] + (w[2] + v[2]) \div (Limb * Limb), (w[2] + v[2]) % (Limb * Limb)>>

WideLE(w, v) == w[1] < v[1] \/ (w[1] = v[1] /\ w[2] <= v[2])

WideLT(w, v) == w[1] < v[1] \/ (w[1] = v[1] /\ w[2] < v[2])

RECURSIVE SqrtSearch(_, _, _)
SqrtSearch(w, lo, hi) ==
    IF lo = hi THEN lo
    ELSE LET m == (lo + hi + 1) \div 2
         IN  IF WideLE(WideMul(m, m), w)
             THEN SqrtSearch(w, m, hi)
             ELSE SqrtSearch(w, lo, m - 1)

RECURSIVE SmallSqrtSearch(_, _, _)
SmallSqrtSearch(h, lo, hi) ==
    IF lo = hi THEN lo
    ELSE LET m == (lo + hi + 1) \div 2
         IN  IF m * m <= h
             THEN SmallSqrtSearch(h, m, hi)
             ELSE SmallSqrtSearch(h, lo, m - 1)

\* Math.sqrt of a wide value (floor). The root of the high limb gives the
\* leading digits; the remaining digits t satisfy 2 * lead * t <= rest, which
\* brackets them within slack + 1 values, searched exactly.
WideSqrt(w) ==
    LET lead == SmallSqrtSearch(w[1], 0, MaxOperand \div Limb)
        rest == (w[1] - lead * lead) * Limb + w[2] \div Limb
        top == IF lead = 0 \/ rest \div (2 * lead) > Limb - 1
               THEN Limb - 1
               ELSE rest \div (2 * lead)
        slack == IF lead = 0 THEN Limb ELSE Limb \div (2 * lead) + 2
        bottom == IF top > slack THEN top - slack ELSE 0
    IN  SqrtSearch(w, lead * Limb + bottom, lead * Limb + top)

RECURSIVE DivSearch(_, _, _, _)
DivSearch(w, c, lo, hi) ==
    IF lo = hi THEN lo
    ELSE LET m == (lo + hi + 1) \div 2
         IN  IF WideLE(WideMul(m, c), w)
             THEN DivSearch(w, c, m, hi)
             ELSE DivSearch(w, c, lo, m - 1)

\* a * b / c rounded to nearest, for 0 <= a, b and 0 < c
MulDiv(a, b, c) ==
    LET w == WideAdd(WideMul(a, b), <<0, c \div 2>>)
    IN  IF (Limb * Limb) % c = 0
        THEN w[1] * ((Limb * Limb) \div c) + w[2] \div c
        ELSE DivSearch(w, c, 0, MaxOperand)

\* Number * Number and Number / Number
FMul(a, b) == Sgn(a) * Sgn(b) * MulDiv(Abs(a), Abs(b), Unit)
FDiv(a, b) == Sgn(a) * Sgn(b) * MulDiv(Abs(a), Unit, Abs(b))

\* ------------------------------------------------------------------------
\* THREE.Vector3
\* ------------------------------------------------------------------------
Vector3(x, y, z) == [x |-> x, y |-> y, z |-> z]

VAdd(a, b) == Vector3(a.x + b.x, a.y + b.y, a.z + b.z)

SubVectors(a, b) == Vector3(a.x - b.x, a.y - b.y, a.z - b.z)

MultiplyScalar(v, s) == Vector3(FMul(v.x, s), FMul(v.y, s), FMul(v.z, s))

DivideScalar(v, s) == Vector3(FDiv(v.x, s), FDiv(v.y, s), FDiv(v.z, s))

LengthSq(v) ==
    WideAdd(WideAdd(WideMul(Abs(v.x), Abs(v.x)), WideMul(Abs(v.y), Abs(v.y))),
            WideMul(Abs(v.z), Abs(v.z)))

Length(v) == WideSqrt(LengthSq(v))

\* v.normalize() is v.divideScalar(v.length() || 1)
Normalize(v) == DivideScalar(v, IF Length(v) = 0 THEN Unit ELSE Length(v))

DistanceTo(a, b) == Length(SubVectors(a, b))

\* toFixed(6) with the sign dropped: a key of rounded magnitudes
ToFixed6Unsigned(a) == <<FALSE, (Abs(a) + 5) \div 10>>

\* Number.prototype.toFixed(6): the sign is kept even when the digits round to 0
ToFixed6(a) == <<a < 0, (Abs(a) + 5) \div 10>>

\* the template-string key `${x.toFixed(6)},${y.toFixed(6)},${z.toFixed(6)}`
VertexKey(v) == <<ToFixed6(v.x), ToFixed6(v.y), ToFixed6(v.z)>>

\* ------------------------------------------------------------------------
\* State
\* ------------------------------------------------------------------------
VARIABLES
    pc,              \* position of the running script
    window,          \* [innerWidth, innerHeight] of the browser window
    camera,          \* [aspect]
    renderer,        \* [width, height] set by renderer.setSize
    scene,           \* names of the objects added to the scene, in order
    frames,          \* frames rendered by animate
    i, j,            \* loop indices
    scale,           \* tetrahedron_visualization.js: const scale
    newVertices,     \* the 4 new vertices
    tetrahedrons,    \* the tetrahedrons array
    tetraGroup,      \* children of tetraGroup: [kind, position]
    addedVertices,   \* the Set of vertex keys
    width, height, depth,  \* rectangular_prism_visualization.js: dimensions
    x, y, z,         \* loop variables of the nested grid loops
    prismGroup,      \* children of prismGroup: the cubes
    cellsX, cellsY, cellsZ,  \* diamond_visualization.js: unit cells per axis
    unitCellSize,    \* the lattice constant
    atomPositions,   \* the array of atom positions
    diamondGroup,    \* the global diamondGroup: [defined, children, rotation]
    examined         \* pairs of atoms whose distance createBonds has computed

common == <<window, camera, renderer, scene, frames>>
tetraVars == <<scale, newVertices, tetrahedrons, tetraGroup, addedVertices>>
prismVars == <<width, height, depth, prismGroup>>
diamondVars == <<cellsX, cellsY, cellsZ, unitCellSize, atomPositions, diamondGroup, examined>>
loops == <<i, j, x, y, z>>
vars == <<pc, loops, common, tetraVars, prismVars, diamondVars>>

WindowSizes == {[innerWidth |-> 800, innerHeight |-> 600],
                [innerWidth |-> 1024, innerHeight |-> 768],
                [innerWidth |-> 600, innerHeight |-> 800]}

Aspect(w) == FDiv(w.innerWidth * Limb, w.innerHeight * Limb)

\* the part of init() before the geometry is built: scene, camera, renderer,
\* controls and lights
InitScene(lights) ==
    /\ scene' = lights
    /\ camera' = [aspect |-> Aspect(window)]
    /\ renderer' = [width |-> window.innerWidth, height |-> window.innerHeight]
    /\ UNCHANGED <<window, frames>>

\* onWindowResize, run on a resize event that leaves the window at size w
OnWindowResize ==
    /\ pc = "running"
    /\ \E w \in WindowSizes :
        /\ w # window
        /\ window' = w
        /\ camera' = [aspect |-> Aspect(w)]
        /\ renderer' = [width |-> w.innerWidth, height |-> w.innerHeight]
    /\ UNCHANGED <<pc, loops, scene, frames, tetraVars, prismVars, diamondVars>>

\* ------------------------------------------------------------------------
\* tetrahedron_visualization.js
\* ------------------------------------------------------------------------
Scales == {(k * Unit) \div 2 : k \in 1..MaxScale} \cup {4 * k : k \in 1..MaxScale}

OffsetFactor == 163 * (Unit \div 100)

Origin == Vector3(0, 0, 0)

\* createRegularTetrahedron(center, scale): vertices and center
createRegularTetrahedron(center, s) ==
    LET base == <<Vector3(Unit, Unit, Unit), Vector3(Unit, -Unit, -Unit),
                  Vector3(-Unit, Unit, -Unit), Vector3(-Unit, -Unit, Unit)>>
    IN  [vertices |-> [k \in 1..4 |-> VAdd(MultiplyScalar(base[k], s), center)],
         center |-> center]

\* centralTetra.vertices[(n + k) % 4]
Vertex(verts, n, k) == verts[((n + k) % 4) + 1]

\* center of the 3 shared vertices of iteration n
SharedCenter(verts, n) ==
    DivideScalar(VAdd(VAdd(VAdd(Origin, Vertex(verts, n, 0)), Vertex(verts, n, 1)),
                      Vertex(verts, n, 2)),
                 3 * Unit)

\* the vertex opposite to the 3 shared vertices of iteration n
OppositeVertex(verts, n) == Vertex(verts, n, 3)

\* the new vertex of iteration n of the first loop
NewVertex(verts, n, s) ==
    LET center == SharedCenter(verts, n)
        directionToOpposite == Normalize(SubVectors(OppositeVertex(verts, n), center))
    IN  SubVectors(center, MultiplyScalar(directionToOpposite, FMul(s, OffsetFactor)))

\* the second loop with (i + 1) % 4 used for the third vertex as well
DerivedTetraSameIndex(verts, newVs, n) ==
    LET tetraVertices == <<Vertex(verts, n, 0), Vertex(verts, n, 1),
                           Vertex(verts, n, 1), newVs[n + 1]>>
        sum == VAdd(VAdd(VAdd(VAdd(Origin, tetraVertices[1]), tetraVertices[2]),
                         tetraVertices[3]), tetraVertices[4])
    IN  [vertices |-> tetraVertices,
         center |-> DivideScalar(sum, 4 * Unit),
         color |-> n + 1]

\* the tetrahedron stored by iteration n of the second loop
DerivedTetra(verts, newVs, n) ==
    LET tetraVertices == <<Vertex(verts, n, 0), Vertex(verts, n, 1),
                           Vertex(verts, n, 2), newVs[n + 1]>>
        sum == VAdd(VAdd(VAdd(VAdd(Origin, tetraVertices[1]), tetraVertices[2]),
                         tetraVertices[3]), tetraVertices[4])
    IN  [vertices |-> tetraVertices,
         center |-> DivideScalar(sum, 4 * Unit),
         color |-> n + 1]

\* mesh, edges and centre sphere of every tetrahedron, in order
TetraMeshes(ts) ==
    LET One(t) == <<[kind |-> "mesh", position |-> Origin],
                    [kind |-> "edges", position |-> Origin],
                    [kind |-> "centerSphere", position |-> t.center]>>
        F[n \in 0..Len(ts)] == IF n = 0 THEN <<>> ELSE F[n - 1] \o One(ts[n])
    IN  F[Len(ts)]

TetraInit ==
    /\ pc = "onload"
    /\ InitScene(<<"ambientLight", "directionalLight">>)
    /\ pc' = "createCentral"
    /\ UNCHANGED <<loops, tetraVars, prismVars, diamondVars>>

\* lines 138-149: the central tetrahedron
TetraCreateCentral ==
    /\ pc = "createCentral"
    /\ tetrahedrons' = <<[vertices |-> createRegularTetrahedron(Origin, scale).vertices,
                          center |-> createRegularTetrahedron(Origin, scale).center,
                          color |-> 0]>>
    /\ i' = 0
    /\ pc' = "newVertices"
    /\ UNCHANGED <<j, x, y, z, common, scale, newVertices, tetraGroup, addedVertices, prismVars, diamondVars>>

\* lines 157-183: one iteration of the loop over the new vertices
TetraNewVertex ==
    /\ pc = "newVertices"
    /\ IF i < 4
       THEN /\ newVertices' = Append(newVertices, NewVertex(tetrahedrons[1].vertices, i, scale))
            /\ i' = i + 1
            /\ pc' = pc
       ELSE /\ i' = 0
            /\ pc' = "derived"
            /\ UNCHANGED newVertices
    /\ UNCHANGED <<j, x, y, z, common, scale, tetrahedrons, tetraGroup, addedVertices, prismVars, diamondVars>>

\* lines 186-235: one iteration of the loop over the additional tetrahedrons
TetraDerived ==
    /\ pc = "derived"
    /\ IF i < 4
       THEN /\ tetrahedrons' = Append(tetrahedrons,
                                      DerivedTetra(tetrahedrons[1].vertices, newVertices, i))
            /\ i' = i + 1
            /\ pc' = pc
       ELSE /\ i' = 0
            /\ pc' = "meshes"
            /\ UNCHANGED tetrahedrons
    /\ UNCHANGED <<j, x, y, z, common, scale, newVertices, tetraGroup, addedVertices, prismVars, diamondVars>>

\* lines 238-259: meshes, edges and centre spheres
TetraAddMeshes ==
    /\ pc = "meshes"
    /\ tetraGroup' = tetraGroup \o TetraMeshes(tetrahedrons)
    /\ i' = 0
    /\ j' = 0
    /\ pc' = "dedup"
    /\ UNCHANGED <<x, y, z, common, scale, newVertices, tetrahedrons, addedVertices, prismVars, diamondVars>>

\* lines 264-280: one vertex of one tetrahedron (tetra i, vertex j, 0-based)
TetraVertexSphere ==
    /\ pc = "dedup"
    /\ i < Len(tetrahedrons)
    /\ LET vertex == tetrahedrons[i + 1].vertices[j + 1]
           key == VertexKey(vertex)
       IN  IF key \notin addedVertices
           THEN /\ tetraGroup' = Append(tetraGroup,
                                        [kind |-> "vertexSphere", position |-> vertex])
                /\ addedVertices' = addedVertices \cup {key}
           ELSE UNCHANGED <<tetraGroup, addedVertices>>
    /\ IF j < 3
       THEN j' = j + 1 /\ i' = i
       ELSE j' = 0 /\ i' = i + 1
    /\ UNCHANGED <<pc, x, y, z, common, scale, newVertices, tetrahedrons, prismVars, diamondVars>>

\* line 283 and the rest of init(): the group joins the scene, the resize
\* handler is registered and the animation loop starts
TetraStart ==
    /\ pc = "dedup"
    /\ i = Len(tetrahedrons)
    /\ scene' = Append(scene, "tetraGroup")
    /\ pc' = "running"
    /\ UNCHANGED <<loops, window, camera, renderer, frames, tetraVars, prismVars, diamondVars>>

\* animate(): controls.update(); renderer.render(scene, camera)
Animate ==
    /\ pc = "running"
    /\ frames < MaxFrames
    /\ frames' = frames + 1
    /\ UNCHANGED <<pc, loops, window, camera, renderer, scene, tetraVars, prismVars, diamondVars>>

\* the page before window.onload fires
InitPage ==
    /\ pc = "onload"
    /\ window = [innerWidth |-> 800, innerHeight |-> 600]
    /\ camera = [aspect |-> 0]
    /\ renderer = [width |-> 0, height |-> 0]
    /\ scene = <<>>
    /\ frames = 0
    /\ i = 0 /\ j = 0
    /\ x = 0 /\ y = 0 /\ z = 0

\* the globals of the tetrahedron script when its page is not the one loaded
NoTetra ==
    /\ scale = 0
    /\ newVertices = <<>>
    /\ tetrahedrons = <<>>
    /\ tetraGroup = <<>>
    /\ addedVertices = {}

\* the globals of the prism script when its page is not the one loaded
NoPrism ==
    /\ width = 0 /\ height = 0 /\ depth = 0
    /\ prismGroup = <<>>

\* let diamondGroup; (undefined until createDiamondStructure runs)
NoDiamondGroup ==
    [defined |-> FALSE, children |-> <<>>, rotation |-> [x |-> 0, y |-> 0]]

\* the globals of the diamond script when its page is not the one loaded
NoDiamond ==
    /\ cellsX = 0 /\ cellsY = 0 /\ cellsZ = 0
    /\ unitCellSize = 0
    /\ atomPositions = <<>>
    /\ diamondGroup = NoDiamondGroup
    /\ examined = 0

InitTetra ==
    /\ InitPage
    /\ NoPrism
    /\ NoDiamond
    /\ scale \in Scales
    /\ newVertices = <<>>
    /\ tetrahedrons = <<>>
    /\ tetraGroup = <<>>
    /\ addedVertices = {}

NextTetra ==
    \/ TetraInit
    \/ TetraCreateCentral
    \/ TetraNewVertex
    \/ TetraDerived
    \/ TetraAddMeshes
    \/ TetraVertexSphere
    \/ TetraStart
    \/ Animate
    \/ OnWindowResize

SpecTetra == InitTetra /\ [][NextTetra]_vars

\* ------------------------------------------------------------------------
\* rectangular_prism_visualization.js
\* ------------------------------------------------------------------------
\* dimensions explored besides the script's own: 0..MaxDim on every axis
MaxDim == 3

PrismWidth == 2
PrismHeight == 5
PrismDepth == 11

cubeSize == Unit
spacing == Unit \div 5

PrismDims ==
    {<<w, h, d>> : w \in 0..MaxDim, h \in 0..MaxDim, d \in 0..MaxDim}
        \cup {<<PrismWidth, PrismHeight, PrismDepth>>}

\* the off-by-one loop condition k < n - 1
LoopGuardShort(k, n) == k < n - 1

\* the loop conditions written with <=
LoopGuardInclusive(k, n) == k <= n

\* the loop conditions x < width, y < height, z < depth
LoopGuard(k, n) == k < n

\* the boundary test with the last index taken to be n
OnBoundaryPastEnd(k, n) == k = 0 \/ k = n

\* k === 0 || k === n - 1
OnBoundary(k, n) == k = 0 \/ k = n - 1

\* exposedFaces with the test of the z axis left out
ExposedFacesTwoAxes(cx, cy, cz, w, h, d) ==
    (IF OnBoundary(cx, w) THEN 1 ELSE 0)
        + (IF OnBoundary(cy, h) THEN 1 ELSE 0)

\* lines 131-136: exposedFaces of the cube at (cx, cy, cz)
ExposedFaces(cx, cy, cz, w, h, d) ==
    (IF OnBoundary(cx, w) THEN 1 ELSE 0)
        + (IF OnBoundary(cy, h) THEN 1 ELSE 0)
        + (IF OnBoundary(cz, d) THEN 1 ELSE 0)

\* lines 139-148: the material chosen for a number of exposed faces
Material(exposedFaces) ==
    IF exposedFaces = 3 THEN "threeFacesExposedMaterial"
    ELSE IF exposedFaces = 2 THEN "twoFacesExposedMaterial"
    ELSE IF exposedFaces = 1 THEN "oneFaceExposedMaterial"
    ELSE "interiorCubeMaterial"

\* the placement without the final half-pitch term
CubePositionNoHalf(c, dim) ==
    FMul(c * Unit, cubeSize + spacing)
        - FDiv(FMul(dim * Unit, cubeSize + spacing), 2 * Unit)

\* lines 153-155: c * (cubeSize + spacing) - (dim * (cubeSize + spacing) / 2)
\*                  + (cubeSize + spacing) / 2
CubePosition(c, dim) ==
    FMul(c * Unit, cubeSize + spacing)
        - FDiv(FMul(dim * Unit, cubeSize + spacing), 2 * Unit)
        + FDiv(cubeSize + spacing, 2 * Unit)

\* lines 130-166: the cube created by the loop body at (cx, cy, cz)
Cube(cx, cy, cz, w, h, d) ==
    [coord |-> <<cx, cy, cz>>,
     exposedFaces |-> ExposedFaces(cx, cy, cz, w, h, d),
     material |-> Material(ExposedFaces(cx, cy, cz, w, h, d)),
     position |-> Vector3(CubePosition(cx, w), CubePosition(cy, h), CubePosition(cz, d))]

PrismInit ==
    /\ pc = "onload"
    /\ InitScene(<<"ambientLight", "directionalLight1", "directionalLight2">>)
    /\ pc' = "cubes"
    /\ UNCHANGED <<loops, tetraVars, prismVars, diamondVars>>

\* lines 127-169: one step of the nested loops: a loop body, or the end of an
\* inner loop
PrismCube ==
    /\ pc = "cubes"
    /\ LoopGuard(x, width)
    /\ IF LoopGuard(y, height)
       THEN IF LoopGuard(z, depth)
            THEN /\ prismGroup' = Append(prismGroup, Cube(x, y, z, width, height, depth))
                 /\ z' = z + 1
                 /\ UNCHANGED <<x, y>>
            ELSE /\ z' = 0
                 /\ y' = y + 1
                 /\ UNCHANGED <<x, prismGroup>>
       ELSE /\ y' = 0
            /\ x' = x + 1
            /\ UNCHANGED <<z, prismGroup>>
    /\ UNCHANGED <<pc, i, j, common, tetraVars, width, height, depth, diamondVars>>

\* line 172 and the rest of init()
PrismStart ==
    /\ pc = "cubes"
    /\ ~LoopGuard(x, width)
    /\ scene' = Append(scene, "prismGroup")
    /\ pc' = "running"
    /\ UNCHANGED <<loops, window, camera, renderer, frames, tetraVars, prismVars, diamondVars>>

InitPrism ==
    /\ InitPage
    /\ NoTetra
    /\ NoDiamond
    /\ \E dims \in PrismDims :
        width = dims[1] /\ height = dims[2] /\ depth = dims[3]
    /\ prismGroup = <<>>

NextPrism ==
    \/ PrismInit
    \/ PrismCube
    \/ PrismStart
    \/ Animate
    \/ OnWindowResize

SpecPrism == InitPrism /\ [][NextPrism]_vars

\* ------------------------------------------------------------------------
\* diamond_visualization.js
\* ------------------------------------------------------------------------
\* unit cells explored on every axis: 0..MaxCells
MaxCells == 2

\* const unitCellSize = 3.57
UnitCellSize == 357 * (Unit \div 100)

\* const maxBondDistance = 1.8
maxBondDistance == 18 * (Unit \div 10)

\* lattice constants explored: the script's own, and one equal to the bond
\* threshold, which puts atoms at exactly that distance from each other
LatticeConstants == {UnitCellSize, maxBondDistance}

\* the loop conditions written with <=
CellGuardInclusive(k, n) == k <= n

\* the loop conditions x < cellsX, y < cellsY, z < cellsZ
CellGuard(k, n) == k < n

\* (k - cells/2) * unitCellSize
BaseOffset(k, cells, a) == FMul(k * Unit - FDiv(cells * Unit, 2 * Unit), a)

\* lines 138-143, as Numbers
fccPositions ==
    <<<<0, 0, 0>>, <<0, Unit \div 2, Unit \div 2>>,
      <<Unit \div 2, 0, Unit \div 2>>, <<Unit \div 2, Unit \div 2, 0>>>>

\* atomX, atomY, atomZ of lines 147-149
FccAtom(base, pos, a) ==
    Vector3(base.x + FMul(pos[1], a), base.y + FMul(pos[2], a), base.z + FMul(pos[3], a))

\* the forEach body with the second lattice left out
FccPairWithoutOffset(base, pos, a) == <<FccAtom(base, pos, a)>>

\* the forEach body with the second lattice offset by 1/2 instead of 1/4
FccPairHalfOffset(base, pos, a) ==
    LET atom == FccAtom(base, pos, a)
        half == FMul(Unit \div 2, a)
    IN  <<atom, Vector3(atom.x + half, atom.y + half, atom.z + half)>>

\* lines 145-164: the two atoms pushed for one FCC position
FccPair(base, pos, a) ==
    LET atom == FccAtom(base, pos, a)
        quarter == FMul(Unit \div 4, a)
    IN  <<atom, Vector3(atom.x + quarter, atom.y + quarter, atom.z + quarter)>>

\* lines 130-164: the atoms pushed for the unit cell (cx, cy, cz)
CellAtoms(cx, cy, cz, nx, ny, nz, a) ==
    LET base == Vector3(BaseOffset(cx, nx, a), BaseOffset(cy, ny, a), BaseOffset(cz, nz, a))
    IN  FccPair(base, fccPositions[1], a) \o FccPair(base, fccPositions[2], a)
            \o FccPair(base, fccPositions[3], a) \o FccPair(base, fccPositions[4], a)

\* createAtom for each position of a sequence
AtomMeshes(ps) == [n \in 1..Len(ps) |-> [kind |-> "atom", position |-> ps[n]]]

\* the bond test with <= in place of <
CloseEnoughInclusive(distance) == distance <= maxBondDistance

\* line 206: distance < maxBondDistance
CloseEnough(distance) == distance < maxBondDistance

\* createBond(atom1, atom2): the mesh added to diamondGroup; atom1 and atom2
\* are kept as the indices of the two atoms in atomPositions
createBond(atoms, m, n) ==
    [kind |-> "bond", atom1 |-> m, atom2 |-> n,
     position |-> MultiplyScalar(VAdd(atoms[m + 1], atoms[n + 1]), Unit \div 2),
     length |-> Length(SubVectors(atoms[n + 1], atoms[m + 1]))]

\* lines 198-209: the inner loop for atom m: j from m + 1 to length - 1, a
\* bond for every j that passes the test, in that order
BondsFrom(atoms, m) ==
    LET js == [k \in 1..(Len(atoms) - 1 - m) |-> m + k]
        Bonded(n) == CloseEnough(DistanceTo(atoms[m + 1], atoms[n + 1]))
        close == SelectSeq(js, Bonded)
    IN  [k \in 1..Len(close) |-> createBond(atoms, m, close[k])]

DiamondInit ==
    /\ pc = "onload"
    /\ InitScene(<<"ambientLight", "directionalLight1", "directionalLight2">>)
    /\ pc' = "createGroup"
    /\ UNCHANGED <<loops, tetraVars, prismVars, diamondVars>>

\* line 79: diamondGroup = new THREE.Group()
DiamondCreateGroup ==
    /\ pc = "createGroup"
    /\ diamondGroup' = [defined |-> TRUE, children |-> <<>>,
                        rotation |-> [x |-> 0, y |-> 0]]
    /\ pc' = "atoms"
    /\ UNCHANGED <<loops, common, tetraVars, prismVars, cellsX, cellsY, cellsZ,
                   unitCellSize, atomPositions, examined>>

\* lines 127-167: one step of the nested loops over the unit cells: a loop
\* body, or the end of an inner loop
DiamondCell ==
    /\ pc = "atoms"
    /\ CellGuard(x, cellsX)
    /\ IF CellGuard(y, cellsY)
       THEN IF CellGuard(z, cellsZ)
            THEN LET atoms == CellAtoms(x, y, z, cellsX, cellsY, cellsZ, unitCellSize)
                 IN  /\ atomPositions' = atomPositions \o atoms
                     /\ diamondGroup' =
                            [diamondGroup EXCEPT !.children = @ \o AtomMeshes(atoms)]
                     /\ z' = z + 1
                     /\ UNCHANGED <<x, y>>
            ELSE /\ z' = 0
                 /\ y' = y + 1
                 /\ UNCHANGED <<x, atomPositions, diamondGroup>>
       ELSE /\ y' = 0
            /\ x' = x + 1
            /\ UNCHANGED <<z, atomPositions, diamondGroup>>
    /\ UNCHANGED <<pc, i, j, common, tetraVars, prismVars, cellsX, cellsY, cellsZ,
                   unitCellSize, examined>>

\* line 171: createBonds is called with the atoms collected
DiamondStartBonds ==
    /\ pc = "atoms"
    /\ ~CellGuard(x, cellsX)
    /\ i' = 0
    /\ pc' = "bonds"
    /\ UNCHANGED <<j, x, y, z, common, tetraVars, prismVars, diamondVars>>

\* lines 197-210: one iteration of the outer loop of createBonds
DiamondBondRow ==
    /\ pc = "bonds"
    /\ i < Len(atomPositions)
    /\ diamondGroup' =
           [diamondGroup EXCEPT !.children = @ \o BondsFrom(atomPositions, i)]
    /\ examined' = examined + (Len(atomPositions) - 1 - i)
    /\ i' = i + 1
    /\ UNCHANGED <<pc, j, x, y, z, common, tetraVars, prismVars, cellsX, cellsY,
                   cellsZ, unitCellSize, atomPositions>>

\* line 174 and the rest of init()
DiamondStart ==
    /\ pc = "bonds"
    /\ ~(i < Len(atomPositions))
    /\ scene' = Append(scene, "diamondGroup")
    /\ pc' = "running"
    /\ UNCHANGED <<loops, window, camera, renderer, frames, tetraVars, prismVars,
                   diamondVars>>

\* animate() with the two increments exchanged
DiamondAnimateSwapped ==
    /\ pc = "running"
    /\ frames < MaxFrames
    /\ frames' = frames + 1
    /\ IF diamondGroup.defined
       THEN diamondGroup' =
                [diamondGroup EXCEPT !.rotation =
                    [x |-> @.x + (2 * Unit) \div 1000, y |-> @.y + Unit \div 1000]]
       ELSE UNCHANGED diamondGroup
    /\ UNCHANGED <<pc, loops, window, camera, renderer, scene, tetraVars, prismVars,
                   cellsX, cellsY, cellsZ, unitCellSize, atomPositions, examined>>

\* animate() of the diamond script: the group turns by 0.002 and 0.001
DiamondAnimate ==
    /\ pc = "running"
    /\ frames < MaxFrames
    /\ frames' = frames + 1
    /\ IF diamondGroup.defined
       THEN diamondGroup' =
                [diamondGroup EXCEPT !.rotation =
                    [x |-> @.x + Unit \div 1000, y |-> @.y + (2 * Unit) \div 1000]]
       ELSE UNCHANGED diamondGroup
    /\ UNCHANGED <<pc, loops, window, camera, renderer, scene, tetraVars, prismVars,
                   cellsX, cellsY, cellsZ, unitCellSize, atomPositions, examined>>

InitDiamond ==
    /\ InitPage
    /\ NoTetra
    /\ NoPrism
    /\ cellsX \in 0..MaxCells
    /\ cellsY \in 0..MaxCells
    /\ cellsZ \in 0..MaxCells
    /\ unitCellSize \in LatticeConstants
    /\ atomPositions = <<>>
    /\ diamondGroup = NoDiamondGroup
    /\ examined = 0

NextDiamond ==
    \/ DiamondInit
    \/ DiamondCreateGroup
    \/ DiamondCell
    \/ DiamondStartBonds
    \/ DiamondBondRow
    \/ DiamondStart
    \/ DiamondAnimate
    \/ OnWindowResize

SpecDiamond == InitDiamond /\ [][NextDiamond]_vars

\* ------------------------------------------------------------------------
\* The three pages together: a browser loads one page, and that page runs
\* its own script only
\* ------------------------------------------------------------------------
\* the script of the page loaded, told by the globals it has set
Page ==
    IF scale # 0 THEN "tetrahedron"
    ELSE IF unitCellSize # 0 THEN "diamond"
    ELSE "prism"

Init == InitTetra \/ InitPrism \/ InitDiamond

Next ==
    \/ Page = "tetrahedron" /\ TetraInit
    \/ Page = "tetrahedron" /\ TetraCreateCentral
    \/ Page = "tetrahedron" /\ TetraNewVertex
    \/ Page = "tetrahedron" /\ TetraDerived
    \/ Page = "tetrahedron" /\ TetraAddMeshes
    \/ Page = "tetrahedron" /\ TetraVertexSphere
    \/ Page = "tetrahedron" /\ TetraStart
    \/ Page = "prism" /\ PrismInit
    \/ Page = "prism" /\ PrismCube
    \/ Page = "prism" /\ PrismStart
    \/ Page = "diamond" /\ DiamondInit
    \/ Page = "diamond" /\ DiamondCreateGroup
    \/ Page = "diamond" /\ DiamondCell
    \/ Page = "diamond" /\ DiamondStartBonds
    \/ Page = "diamond" /\ DiamondBondRow
    \/ Page = "diamond" /\ DiamondStart
    \/ Page = "diamond" /\ DiamondAnimate
    \/ Page # "diamond" /\ Animate
    \/ OnWindowResize

Spec == Init /\ [][Next]_vars

\* ------------------------------------------------------------------------
\* Properties of the tetrahedron cluster
\* ------------------------------------------------------------------------
CentralVertices == tetrahedrons[1].vertices

CentralVertexSet == {CentralVertices[k] : k \in 1..4}

VertexSpheres == {n \in 1..Len(tetraGroup) : tetraGroup[n].kind = "vertexSphere"}

\* C1: once the cluster is built there are exactly 5 tetrahedra of 4 vertices
\* each (20 vertex instances); the 20 instances deduplicated by their
\* coordinates rounded to 6 decimals are exactly 8 keys, the 4 of the central
\* vertices and 4 pairwise distinct ones of the new vertices, and one vertex
\* sphere was added per key.
C1_ClusterHasEightVertices ==
    pc = "running" =>
        /\ Len(tetrahedrons) = 5
        /\ \A t \in 1..5 : DOMAIN tetrahedrons[t].vertices = 1..4
        /\ Cardinality(addedVertices) = 8
        /\ Cardinality(addedVertices) < 20
        /\ Cardinality({VertexKey(CentralVertices[k]) : k \in 1..4}) = 4
        /\ Cardinality({VertexKey(newVertices[k]) : k \in 1..4}) = 4
        /\ addedVertices = {VertexKey(CentralVertices[k]) : k \in 1..4}
                             \cup {VertexKey(newVertices[k]) : k \in 1..4}
        /\ Cardinality(VertexSpheres) = 8

C1_Witness ==
    /\ pc = "running"
    /\ scale = Unit
    /\ Cardinality(addedVertices) = 8
    /\ Len(tetrahedrons) = 5

\* C2: derived tetrahedron n (n in 0..3) has the central vertices n, (n+1)%4
\* and (n+2)%4 as its first three vertices, so exactly 3 of its 4 vertices are
\* central vertices, and its 4th vertex is none of the 4 central vertices.
C2_DerivedSharesThree ==
    \A n \in 0..3 :
        Len(tetrahedrons) >= n + 2 =>
            LET t == tetrahedrons[n + 2].vertices
            IN  /\ t[1] = CentralVertices[n + 1]
                /\ t[2] = CentralVertices[((n + 1) % 4) + 1]
                /\ t[3] = CentralVertices[((n + 2) % 4) + 1]
                /\ t[4] = newVertices[n + 1]
                /\ t[4] \notin CentralVertexSet
                /\ Cardinality({k \in 1..4 : t[k] \in CentralVertexSet}) = 3
                /\ Cardinality({t[k] : k \in 1..3}) = 3

C2_Witness ==
    /\ Len(tetrahedrons) = 5
    /\ scale = Unit
    /\ tetrahedrons[5].vertices[4] = newVertices[4]

\* two lengths agree up to 1% and the rounding of the arithmetic (2e-6)
SameLength(a, b) == Abs(a - b) * 100 <= b + 2000

\* C3: every new vertex is the mirror image of the opposite central vertex
\* through the centre of the 3 shared vertices (same distance from that
\* centre), and the derived tetrahedron has the edge length of the central one.
C3_NewVertexMirrorsOpposite ==
    \A n \in 0..3 :
        Len(tetrahedrons) >= n + 2 =>
            LET mid == SharedCenter(CentralVertices, n)
                t == tetrahedrons[n + 2].vertices
                edge == DistanceTo(CentralVertices[1], CentralVertices[2])
            IN  /\ SameLength(DistanceTo(mid, t[4]),
                              DistanceTo(mid, OppositeVertex(CentralVertices, n)))
                /\ \A k \in 1..3 : SameLength(DistanceTo(t[k], t[4]), edge)

\* C4: every vertex of every tetrahedron of the cluster is, by coordinate,
\* also a vertex of another tetrahedron of the cluster.
C4_EveryVertexShared ==
    pc = "running" =>
        \A t \in 1..Len(tetrahedrons) : \A k \in 1..4 :
            \E u \in 1..Len(tetrahedrons) : \E m \in 1..4 :
                u # t /\ tetrahedrons[u].vertices[m] = tetrahedrons[t].vertices[k]

\* ------------------------------------------------------------------------
\* Properties of the prism
\* ------------------------------------------------------------------------
Grid == {<<cx, cy, cz>> : cx \in 0..(width - 1), cy \in 0..(height - 1),
                          cz \in 0..(depth - 1)}

CubesWith(e) == {n \in 1..Len(prismGroup) : prismGroup[n].exposedFaces = e}

RECURSIVE PositionSumOf(_, _)
PositionSumOf(lo, hi) ==
    IF lo > hi THEN Origin
    ELSE IF lo = hi THEN prismGroup[lo].position
    ELSE VAdd(PositionSumOf(lo, (lo + hi) \div 2),
              PositionSumOf((lo + hi) \div 2 + 1, hi))

PositionSum == PositionSumOf(1, Len(prismGroup))

\* C5: for positive width, height and depth the finished prism holds exactly
\* width * height * depth cubes, one for every coordinate of the grid, none
\* skipped and none produced twice; 110 cubes for 2 x 5 x 11.
C5_OneCubePerCoordinate ==
    (pc = "running" /\ width > 0 /\ height > 0 /\ depth > 0) =>
        /\ Len(prismGroup) = width * height * depth
        /\ {prismGroup[n].coord : n \in 1..Len(prismGroup)} = Grid
        /\ \A m, n \in 1..Len(prismGroup) :
               prismGroup[m].coord = prismGroup[n].coord => m = n
        /\ (width = PrismWidth /\ height = PrismHeight /\ depth = PrismDepth)
               => Len(prismGroup) = 110

C5_Witness ==
    /\ pc = "running"
    /\ width = PrismWidth /\ height = PrismHeight /\ depth = PrismDepth
    /\ Len(prismGroup) = 110

\* C6: for width, height, depth >= 2 the finished prism has exactly 8 cubes
\* whose exposedFaces is 3 and (width-2)*(height-2)*(depth-2) cubes whose
\* exposedFaces is 0; for 2 x 5 x 11 that is 8 and 0.
C6_CornerAndInteriorCounts ==
    (pc = "running" /\ width >= 2 /\ height >= 2 /\ depth >= 2) =>
        /\ Cardinality(CubesWith(3)) = 8
        /\ Cardinality(CubesWith(0)) = (width - 2) * (height - 2) * (depth - 2)
        /\ (width = PrismWidth /\ height = PrismHeight /\ depth = PrismDepth)
               => Cardinality(CubesWith(0)) = 0

C6_Witness ==
    /\ pc = "running"
    /\ width = PrismWidth /\ height = PrismHeight /\ depth = PrismDepth
    /\ Cardinality(CubesWith(3)) = 8
    /\ Cardinality(CubesWith(0)) = 0

\* C7: the placement centres the grid at the origin: the cube at coordinate c
\* of an axis sits at the negation of the position of the cube at
\* dimension-1-c, and the positions of all cubes sum to the zero vector.
C7_GridCentredAtOrigin ==
    pc = "running" =>
        /\ \A m, n \in 1..Len(prismGroup) :
               (/\ prismGroup[m].coord[1] = width - 1 - prismGroup[n].coord[1]
                /\ prismGroup[m].coord[2] = height - 1 - prismGroup[n].coord[2]
                /\ prismGroup[m].coord[3] = depth - 1 - prismGroup[n].coord[3])
                   => prismGroup[m].position = SubVectors(Origin, prismGroup[n].position)
        /\ PositionSum = Origin

C7_Witness ==
    /\ pc = "running"
    /\ width = PrismWidth /\ height = PrismHeight /\ depth = PrismDepth
    /\ Len(prismGroup) = 110
    /\ prismGroup[1].position = Vector3(-6000000, -24000000, -60000000)
    /\ prismGroup[110].position = Vector3(6000000, 24000000, 60000000)

\* ------------------------------------------------------------------------
\* Properties of the diamond structure
\* ------------------------------------------------------------------------
NumAtoms == Len(atomPositions)

Children(kind) ==
    {n \in 1..Len(diamondGroup.children) : diamondGroup.children[n].kind = kind}

\* the pairs of atom indices createBond was called with
BondPairs ==
    {<<diamondGroup.children[n].atom1, diamondGroup.children[n].atom2>> :
        n \in Children("bond")}

\* squared distance below the squared threshold, without taking a root
WithinThreshold(a, b) ==
    WideLT(LengthSq(SubVectors(a, b)), WideMul(maxBondDistance, maxBondDistance))

\* number of bonds atom m (0-based) is an endpoint of
Degree(m) ==
    Cardinality({n \in Children("bond") :
        diamondGroup.children[n].atom1 = m \/ diamondGroup.children[n].atom2 = m})

\* the 4 FCC sites (0,0,0), (0,1/2,1/2), (1/2,0,1/2), (1/2,1/2,0) in halves
FccHalves == <<<<0, 0, 0>>, <<0, 1, 1>>, <<1, 0, 1>>, <<1, 1, 0>>>>

\* C8: when bonding starts atomPositions holds 8 atoms per unit cell, that is
\* 8 * cellsX * cellsY * cellsZ entries (64 for 2 x 2 x 2): in every cell the 4
\* FCC atoms at the cell's first atom plus fccPositions * unitCellSize, each
\* followed by the atom offset by a quarter of unitCellSize on every axis; one
\* atom mesh was created per entry.
C8_EightAtomsPerCell ==
    pc \in {"bonds", "running"} =>
        /\ NumAtoms = 8 * cellsX * cellsY * cellsZ
        /\ (cellsX = 2 /\ cellsY = 2 /\ cellsZ = 2) => NumAtoms = 64
        /\ Cardinality(Children("atom")) = NumAtoms
        /\ \A c \in 0..(cellsX * cellsY * cellsZ - 1) : \A k \in 0..3 :
               LET first == atomPositions[8 * c + 1]
                   fcc == atomPositions[8 * c + 2 * k + 1]
                   off == atomPositions[8 * c + 2 * k + 2]
                   h == unitCellSize \div 2
                   q == unitCellSize \div 4
               IN  /\ SubVectors(fcc, first) =
                          Vector3(FccHalves[k + 1][1] * h, FccHalves[k + 1][2] * h,
                                  FccHalves[k + 1][3] * h)
                   /\ SubVectors(off, fcc) = Vector3(q, q, q)

C8_Witness ==
    /\ pc = "bonds"
    /\ i = 0
    /\ cellsX = 2 /\ cellsY = 2 /\ cellsZ = 2
    /\ unitCellSize = UnitCellSize
    /\ NumAtoms = 64

\* C9: createBonds computes the distance of every unordered pair of atoms
\* once and creates one bond exactly for the pairs i < j whose distance is
\* strictly below maxBondDistance: no bond joins atoms at the threshold or
\* farther, no closer pair lacks a bond, no pair has two bonds.
C9_BondIffWithinThreshold ==
    pc = "running" =>
        /\ 2 * examined = NumAtoms * (NumAtoms - 1)
        /\ BondPairs = {p \in (0..(NumAtoms - 1)) \X (0..(NumAtoms - 1)) :
                           /\ p[1] < p[2]
                           /\ WithinThreshold(atomPositions[p[1] + 1],
                                              atomPositions[p[2] + 1])}
        /\ Cardinality(Children("bond")) = Cardinality(BondPairs)

C9_Witness ==
    /\ pc = "running"
    /\ cellsX = 2 /\ cellsY = 2 /\ cellsZ = 2
    /\ unitCellSize = UnitCellSize
    /\ examined = 2016
    /\ <<0, 1>> \in BondPairs
    /\ <<0, 2>> \notin BondPairs

\* C10: in the finished 2 x 2 x 2 structure with lattice constant 3.57 every
\* one of the 64 atoms is an endpoint of exactly 4 bonds.
C10_EveryAtomHasFourBonds ==
    (/\ pc = "running"
     /\ cellsX = 2 /\ cellsY = 2 /\ cellsZ = 2
     /\ unitCellSize = UnitCellSize) =>
        /\ NumAtoms = 64
        /\ \A m \in 0..(NumAtoms - 1) : Degree(m) = 4

\* an atom coordinate in quarters of the lattice constant
Quarters(c) == c \div (unitCellSize \div 4)

AtomCoords(axis) ==
    {(IF axis = 1 THEN atomPositions[n].x
      ELSE IF axis = 2 THEN atomPositions[n].y ELSE atomPositions[n].z) :
        n \in 1..NumAtoms}

MinCoord(axis) == CHOOSE c \in AtomCoords(axis) : \A d \in AtomCoords(axis) : c <= d

MaxCoord(axis) == CHOOSE c \in AtomCoords(axis) : \A d \in AtomCoords(axis) : c >= d

RECURSIVE QuarterSumOf(_, _)
QuarterSumOf(lo, hi) ==
    IF lo > hi THEN Origin
    ELSE IF lo = hi
         THEN Vector3(Quarters(atomPositions[lo].x), Quarters(atomPositions[lo].y),
                      Quarters(atomPositions[lo].z))
    ELSE VAdd(QuarterSumOf(lo, (lo + hi) \div 2),
              QuarterSumOf((lo + hi) \div 2 + 1, hi))

\* C11: the atoms of the 2 x 2 x 2 lattice are centred on the origin: every
\* coordinate is a whole number of quarters of the lattice constant, on every
\* axis the smallest coordinate is the negation of the largest, and the atom
\* positions sum to the zero vector (their mean is the origin).
C11_LatticeCentredAtOrigin ==
    (/\ pc \in {"bonds", "running"}
     /\ cellsX = 2 /\ cellsY = 2 /\ cellsZ = 2) =>
        /\ \A axis \in 1..3 : \A c \in AtomCoords(axis) :
               c = Quarters(c) * (unitCellSize \div 4)
        /\ \A axis \in 1..3 : MinCoord(axis) = -MaxCoord(axis)
        /\ QuarterSumOf(1, NumAtoms) = Origin

\* C12: when a cell dimension is 0 the loops over the cells and over the
\* pairs of atoms run no iteration: no atom is ever pushed, no mesh is ever
\* added to diamondGroup, no distance is ever computed, and the script goes on
\* to add the empty group to the scene.
C12_NoCellsNoAtomsNoBonds ==
    (cellsX = 0 \/ cellsY = 0 \/ cellsZ = 0) =>
        /\ NumAtoms = 0
        /\ Children("atom") = {}
        /\ Children("bond") = {}
        /\ diamondGroup.children = <<>>
        /\ examined = 0
        /\ pc = "bonds" => i = 0
        /\ pc = "running" => scene[Len(scene)] = "diamondGroup"

C12_Witness ==
    /\ pc = "running"
    /\ cellsX = 0 /\ cellsY = 0 /\ cellsZ = 0
    /\ diamondGroup.defined
    /\ diamondGroup.children = <<>>
    /\ scene[Len(scene)] = "diamondGroup"

\* ------------------------------------------------------------------------
\* Properties of the three pages
\* ------------------------------------------------------------------------
\* a grid dimension of the page's builder is not positive
InvalidDimensions ==
    \/ Page = "prism" /\ (width <= 0 \/ height <= 0 \/ depth <= 0)
    \/ Page = "diamond" /\ (cellsX <= 0 \/ cellsY <= 0 \/ cellsZ <= 0)

GroupsInScene ==
    {n \in 1..Len(scene) : scene[n] \in {"tetraGroup", "prismGroup", "diamondGroup"}}

Geometry ==
    <<scale, newVertices, tetrahedrons, tetraGroup, addedVertices,
      width, height, depth, prismGroup,
      cellsX, cellsY, cellsZ, unitCellSize, atomPositions, diamondGroup.children,
      diamondGroup.defined, examined, scene>>

\* C14: once init is through, every step is a frame or a resize and leaves the
\* geometry and the scene as they are. A frame leaves window, camera and
\* renderer alone and, on the diamond page, turns the group by 0.001 about x
\* and 0.002 about y (no rotation is touched on the other pages); a resize
\* sets the camera aspect and the renderer size from the window and nothing
\* else.
C14_GeometryFixedAfterInit ==
    [][pc = "running" =>
        /\ pc' = "running"
        /\ Geometry' = Geometry
        /\ frames' # frames =>
               /\ frames' = frames + 1
               /\ <<window, camera, renderer>>' = <<window, camera, renderer>>
               /\ diamondGroup'.rotation =
                      IF Page = "diamond"
                      THEN [x |-> diamondGroup.rotation.x + Unit \div 1000,
                            y |-> diamondGroup.rotation.y + (2 * Unit) \div 1000]
                      ELSE diamondGroup.rotation
        /\ frames' = frames =>
               /\ window' # window
               /\ diamondGroup' = diamondGroup
               /\ camera' = [aspect |-> Aspect(window')]
               /\ renderer' = [width |-> window'.innerWidth, height |-> window'.innerHeight]
    ]_vars

C14_Witness ==
    /\ pc = "running"
    /\ Page = "diamond"
    /\ cellsX = 2 /\ cellsY = 2 /\ cellsZ = 2
    /\ NumAtoms = 64
    /\ frames = 2
    /\ diamondGroup.rotation = [x |-> 2 * (Unit \div 1000), y |-> 4 * (Unit \div 1000)]
    /\ window = [innerWidth |-> 600, innerHeight |-> 800]
    /\ renderer = [width |-> 600, height |-> 800]

\* ------------------------------------------------------------------------
\* Exposed faces of the cubes
\* ------------------------------------------------------------------------
\* the six cells next to c, one per face of its cube
FaceNeighbours(c) ==
    {<<c[1] - 1, c[2], c[3]>>, <<c[1] + 1, c[2], c[3]>>,
     <<c[1], c[2] - 1, c[3]>>, <<c[1], c[2] + 1, c[3]>>,
     <<c[1], c[2], c[3] - 1>>, <<c[1], c[2], c[3] + 1>>}

\* the faces of the cube at c with no cell of the grid on their side
TrueExposedFaces(c) == Cardinality(FaceNeighbours(c) \ Grid)

\* the axes along which the grid is a single cell thick
ThinAxes ==
    (IF width = 1 THEN 1 ELSE 0) + (IF height = 1 THEN 1 ELSE 0)
        + (IF depth = 1 THEN 1 ELSE 0)

MaterialFor(e) ==
    CASE e = 3 -> "threeFacesExposedMaterial"
      [] e = 2 -> "twoFacesExposedMaterial"
      [] e = 1 -> "oneFaceExposedMaterial"
      [] OTHER -> "interiorCubeMaterial"

C16_BondsPerAtomBetweenOneAndFour ==
    (/\ pc = "running"
     /\ cellsX = 2 /\ cellsY = 2 /\ cellsZ = 2
     /\ unitCellSize = UnitCellSize) =>
        /\ \A m \in 0..(NumAtoms - 1) : Degree(m) >= 1 /\ Degree(m) <= 4
        /\ \A k \in 0..(NumAtoms \div 2 - 1) : <<2 * k, 2 * k + 1>> \in BondPairs

C16_Witness ==
    /\ pc = "running"
    /\ cellsX = 2 /\ cellsY = 2 /\ cellsZ = 2
    /\ unitCellSize = UnitCellSize
    /\ NumAtoms = 64
    /\ Degree(0) = 1
    /\ \E m \in 0..(NumAtoms - 1) : Degree(m) = 4
    /\ <<62, 63>> \in BondPairs

====
